---- MODULE Spec2Model ----
(***************************************************************************)
(* memm: an allocation-tracking layer over malloc/calloc/realloc/free.     *)
(* The registry g_memm (a fixed table of chained records plus five         *)
(* counters) is modelled together with the raw allocator it wraps (the set *)
(* of user blocks the allocator currently holds).                          *)
(*                                                                         *)
(* Modelling notes                                                         *)
(*  - addresses are 1..MaxAddr, NULL is 0;                                 *)
(*  - size_t arithmetic is kept modulo SizeMod; the cap MaxAllocs keeps    *)
(*    every cumulative counter far below SizeMod, i.e. the model covers    *)
(*    runs in which no cumulative counter exceeds SIZE_MAX;                *)
(*  - the record field `timestamp` (time(NULL)) is written but never read  *)
(*    by any function and is left out of the records;                      *)
(*  - misuse of the raw allocator (release or resize of an address it does *)
(*    not hold) is undefined behaviour in C; the allocator model gives it  *)
(*    every outcome that keeps the allocator's own bookkeeping intact.     *)
(***************************************************************************)
EXTENDS Integers, Sequences, FiniteSets, TLC

VARIABLES g_memm, heap, last, pre, journal

vars == <<g_memm, heap, last, pre, journal>>

-----------------------------------------------------------------------------
(* Bounds of the model *)

MaxAddr == 3
MaxSize == 1
MaxAllocs == 2
MaxCap == 260
MaxJournal == 4

(* Program constants.  MEMM_HASH_TABLE_SIZE is a build option (#ifndef, any
   power of two); the model is the build with -DMEMM_HASH_TABLE_SIZE=2, in
   which addresses 1 and 3 share a bucket.  SizeMod stands for SIZE_MAX + 1. *)

NULL == 0
MEMM_HASH_TABLE_SIZE == 2
SizeMod == 2 ^ 16

Addrs == 1 .. MaxAddr
Ptrs == {NULL} \cup Addrs
Sizes == {0, MaxSize}
Nums == {1, 2}
Files == {"a.c"}
Lines == {7}
Buckets == 0 .. (MEMM_HASH_TABLE_SIZE - 1)

-----------------------------------------------------------------------------
(* Internal implementation *)

RECURSIVE BitAnd(_, _)
BitAnd(a, b) ==
    IF a = 0 \/ b = 0 THEN 0
    ELSE (a % 2) * (b % 2) + 2 * BitAnd(a \div 2, b \div 2)

(* hash that masks with the table size instead of the table size minus one *)
memm_hash_ptr_size(ptr) == BitAnd(ptr, MEMM_HASH_TABLE_SIZE) % MEMM_HASH_TABLE_SIZE

memm_hash_ptr(ptr) == BitAnd(ptr, MEMM_HASH_TABLE_SIZE - 1)

memm_allocation_t(ptr, size, file, line) ==
    [ptr |-> ptr, size |-> size, file |-> file, line |-> line]

memm_t(table, ta, tf, peak, ac, fc) ==
    [hash_table |-> table, total_allocated |-> ta, total_freed |-> tf,
     peak_memory |-> peak, allocation_count |-> ac, free_count |-> fc]

g_memm_zero == memm_t([i \in Buckets |-> <<>>], 0, 0, 0, 0, 0)

(* register that forgets to raise peak_memory *)
memm_register_allocation_nopeak(m, ptr, size, file, line, node_ok) ==
    IF ptr = NULL \/ ~node_ok THEN m
    ELSE [m EXCEPT !.hash_table[memm_hash_ptr(ptr)] =
                       <<memm_allocation_t(ptr, size, file, line)>> \o @,
                   !.total_allocated = (@ + size) % SizeMod,
                   !.allocation_count = (@ + 1) % SizeMod]

(* register that links the new record at the tail of the chain *)
memm_register_allocation_append(m, ptr, size, file, line, node_ok) ==
    IF ptr = NULL THEN m
    ELSE IF ~node_ok THEN m
    ELSE LET hash == memm_hash_ptr(ptr)
             alloc == memm_allocation_t(ptr, size, file, line)
             ta == (m.total_allocated + size) % SizeMod
             current_usage == (ta - m.total_freed) % SizeMod
         IN  [m EXCEPT !.hash_table[hash] = @ \o <<alloc>>,
                       !.total_allocated = ta,
                       !.allocation_count = (@ + 1) % SizeMod,
                       !.peak_memory = IF current_usage > @ THEN current_usage ELSE @]

(* register that updates the counters before it asks for the record's storage *)
memm_register_allocation_early(m, ptr, size, file, line, node_ok) ==
    IF ptr = NULL THEN m
    ELSE LET hash == memm_hash_ptr(ptr)
             alloc == memm_allocation_t(ptr, size, file, line)
             ta == (m.total_allocated + size) % SizeMod
             current_usage == (ta - m.total_freed) % SizeMod
             counted == [m EXCEPT !.total_allocated = ta,
                                  !.allocation_count = (@ + 1) % SizeMod,
                                  !.peak_memory = IF current_usage > @
                                                  THEN current_usage ELSE @]
         IN  IF ~node_ok THEN counted
             ELSE [counted EXCEPT !.hash_table[hash] = <<alloc>> \o @]

(* register: node_ok is the outcome of the malloc of the record itself *)
memm_register_allocation(m, ptr, size, file, line, node_ok) ==
    IF ptr = NULL THEN m
    ELSE IF ~node_ok THEN m
    ELSE LET hash == memm_hash_ptr(ptr)
             alloc == memm_allocation_t(ptr, size, file, line)
             ta == (m.total_allocated + size) % SizeMod
             current_usage == (ta - m.total_freed) % SizeMod
         IN  [m EXCEPT !.hash_table[hash] = <<alloc>> \o @,
                       !.total_allocated = ta,
                       !.allocation_count = (@ + 1) % SizeMod,
                       !.peak_memory = IF current_usage > @ THEN current_usage ELSE @]

(* chain walk that keeps going and ends on the last record with this ptr *)
RECURSIVE chain_find_last(_, _, _)
chain_find_last(chain, ptr, i) ==
    IF i > Len(chain) THEN 0
    ELSE LET further == chain_find_last(chain, ptr, i + 1)
         IN  IF further # 0 THEN further
             ELSE IF chain[i].ptr = ptr THEN i ELSE 0

(* the chain walk of unregister: index of the first record with this ptr, 0 if none *)
RECURSIVE chain_find(_, _, _)
chain_find(chain, ptr, i) ==
    IF i > Len(chain) THEN 0
    ELSE IF chain[i].ptr = ptr THEN i
    ELSE chain_find(chain, ptr, i + 1)

chain_unlink(chain, i) == SubSeq(chain, 1, i - 1) \o SubSeq(chain, i + 1, Len(chain))

(* unregister that does not count the release *)
memm_unregister_allocation_nocount(m, ptr) ==
    IF ptr = NULL THEN [m |-> m, found |-> TRUE]
    ELSE LET hash == memm_hash_ptr(ptr)
             chain == m.hash_table[hash]
             i == chain_find(chain, ptr, 1)
         IN  IF i # 0
             THEN [m |-> [m EXCEPT !.hash_table[hash] = chain_unlink(chain, i),
                                   !.total_freed = (@ + chain[i].size) % SizeMod],
                   found |-> TRUE]
             ELSE [m |-> m, found |-> FALSE]

(* unregister that takes the size to add to total_freed from the head of the chain *)
memm_unregister_allocation_head(m, ptr) ==
    IF ptr = NULL THEN [m |-> m, found |-> TRUE]
    ELSE LET hash == memm_hash_ptr(ptr)
             chain == m.hash_table[hash]
             i == chain_find(chain, ptr, 1)
         IN  IF i # 0
             THEN [m |-> [m EXCEPT !.hash_table[hash] = chain_unlink(chain, i),
                                   !.total_freed = (@ + chain[1].size) % SizeMod,
                                   !.free_count = (@ + 1) % SizeMod],
                   found |-> TRUE]
             ELSE [m |-> m, found |-> FALSE]

(* unregister that adds the freed size to total_freed twice *)
memm_unregister_allocation_twice(m, ptr) ==
    IF ptr = NULL THEN [m |-> m, found |-> TRUE]
    ELSE LET hash == memm_hash_ptr(ptr)
             chain == m.hash_table[hash]
             i == chain_find(chain, ptr, 1)
         IN  IF i # 0
             THEN [m |-> [m EXCEPT !.hash_table[hash] = chain_unlink(chain, i),
                                   !.total_freed = (@ + 2 * chain[i].size + 1) % SizeMod,
                                   !.free_count = (@ + 1) % SizeMod],
                   found |-> TRUE]
             ELSE [m |-> m, found |-> FALSE]

(* unregister that updates the counters and leaves the record linked *)
memm_unregister_allocation_keep(m, ptr) ==
    IF ptr = NULL THEN [m |-> m, found |-> TRUE]
    ELSE LET hash == memm_hash_ptr(ptr)
             chain == m.hash_table[hash]
             i == chain_find(chain, ptr, 1)
         IN  IF i # 0
             THEN [m |-> [m EXCEPT !.total_freed = (@ + chain[i].size) % SizeMod,
                                   !.free_count = (@ + 1) % SizeMod],
                   found |-> TRUE]
             ELSE [m |-> m, found |-> FALSE]

memm_unregister_allocation(m, ptr) ==
    IF ptr = NULL THEN [m |-> m, found |-> TRUE]
    ELSE LET hash == memm_hash_ptr(ptr)
             chain == m.hash_table[hash]
             i == chain_find(chain, ptr, 1)
         IN  IF i # 0
             THEN [m |-> [m EXCEPT !.hash_table[hash] = chain_unlink(chain, i),
                                   !.total_freed = (@ + chain[i].size) % SizeMod,
                                   !.free_count = (@ + 1) % SizeMod],
                   found |-> TRUE]
             ELSE [m |-> m, found |-> FALSE]

-----------------------------------------------------------------------------
(* The raw allocator (stdlib malloc/calloc/realloc/free) *)

(* what malloc/calloc may return: NULL, or an address it does not hold *)
raw_malloc(h) == {NULL} \cup (Addrs \ h)

raw_free(h, ptr) == h \ {ptr}

(* the malloc of a record inside register succeeds or fails; register only
   reaches it for a non-null address *)
node_outcomes(ptr) == IF ptr = NULL THEN {TRUE} ELSE BOOLEAN

(* realloc(ptr, size): [ret, heap, how]
   fail  - NULL, the old block is kept
   ok    - the old block is given up and a block (possibly at the same address) returned
   freed - realloc(ptr, 0) releasing the block and returning NULL *)
raw_realloc(h, ptr, size) ==
    {[ret |-> NULL, heap |-> h, how |-> "fail"]}
    \cup {[ret |-> a, heap |-> (h \ {ptr}) \cup {a}, how |-> "ok"] :
             a \in Addrs \ (h \ {ptr})}
    \cup (IF size = 0 /\ ptr # NULL
          THEN {[ret |-> NULL, heap |-> h \ {ptr}, how |-> "freed"]}
          ELSE {})

-----------------------------------------------------------------------------
(* Observation of the most recent call (history variables).
   last: the call's operation, arguments and results
     adapter  - what the raw allocator did: "ok", "fail", "freed", "none"
     regfail  - register was reached and the malloc of its record failed
     releases - how many times the call invoked the raw free
     follows  - a memm_free that directly follows a successful memm_malloc
                and releases the address that memm_malloc returned
     net0     - when follows: allocation_count - free_count before that memm_malloc
     unregistered - a memm_free that directly follows a tracked allocation whose
                registration failed and releases the address it returned
     buffer_ok, buffer_size - a report call's arguments (buffer_ok: non-null buffer)
     buffer   - the caller's buffer after a report call, up to the last cell
                the call wrote (in or out of bounds)
   pre: g_memm as it was when the call started
   journal: the caller's own notes of the blocks it asked for and gave back,
     in call order; kept by the callers of ClientSpec and RegistrySpec only *)

NoCall ==
    [op |-> "none", ptr |-> NULL, size |-> 0, ret |-> NULL, found |-> FALSE,
     adapter |-> "none", regfail |-> FALSE, releases |-> 0,
     follows |-> FALSE, net0 |-> 0, unregistered |-> FALSE,
     buffer_ok |-> FALSE, buffer_size |-> 0, buffer |-> ""]

Net(m) == m.allocation_count - m.free_count

HasRecord(m, ptr) ==
    \E i \in Buckets : \E k \in 1 .. Len(m.hash_table[i]) : m.hash_table[i][k].ptr = ptr

-----------------------------------------------------------------------------
(* External implementations *)

Init ==
    /\ g_memm = g_memm_zero
    /\ heap = {}
    /\ last = NoCall
    /\ pre = g_memm_zero
    /\ journal = <<>>

memm_init ==
    /\ g_memm' = g_memm_zero
    /\ heap' = heap
    /\ pre' = g_memm
    /\ last' = [NoCall EXCEPT !.op = "init"]

(* shutdown that also zeroes the counters *)
memm_shutdown_registry_reset(m) == g_memm_zero

(* shutdown whose sweep stops after the first bucket *)
memm_shutdown_registry_first(m) ==
    [m EXCEPT !.hash_table[0] = <<>>]

memm_shutdown_registry(m) ==
    [m EXCEPT !.hash_table = [i \in Buckets |-> <<>>]]

memm_shutdown ==
    /\ g_memm' = memm_shutdown_registry(g_memm)
    /\ heap' = heap
    /\ pre' = g_memm
    /\ last' = [NoCall EXCEPT !.op = "shutdown"]

(* malloc that counts the call before looking at the allocator's answer *)
memm_malloc_registry_count(m, ptr, size, file, line, node_ok) ==
    IF ptr # NULL
    THEN memm_register_allocation(m, ptr, size, file, line, node_ok)
    ELSE [m EXCEPT !.allocation_count = (@ + 1) % SizeMod]

memm_malloc_registry(m, ptr, size, file, line, node_ok) ==
    IF ptr # NULL
    THEN memm_register_allocation(m, ptr, size, file, line, node_ok)
    ELSE m

(* memm_malloc called with a size out of S *)
memm_malloc_of(S) ==
    \E size \in S, file \in Files, line \in Lines, ptr \in raw_malloc(heap) :
      \E node_ok \in node_outcomes(ptr) :
        /\ g_memm' = memm_malloc_registry(g_memm, ptr, size, file, line, node_ok)
        /\ heap' = IF ptr # NULL THEN heap \cup {ptr} ELSE heap
        /\ pre' = g_memm
        /\ last' = [NoCall EXCEPT !.op = "malloc", !.size = size, !.ret = ptr,
                                  !.adapter = IF ptr # NULL THEN "ok" ELSE "fail",
                                  !.regfail = ptr # NULL /\ ~node_ok]

memm_malloc == memm_malloc_of(Sizes)

memm_calloc_registry(m, ptr, num, size, file, line, node_ok) ==
    IF ptr # NULL
    THEN memm_register_allocation(m, ptr, (num * size) % SizeMod, file, line, node_ok)
    ELSE m

memm_calloc ==
    \E num \in Nums, size \in Sizes, file \in Files, line \in Lines,
       ptr \in raw_malloc(heap) :
      \E node_ok \in node_outcomes(ptr) :
        /\ g_memm' = memm_calloc_registry(g_memm, ptr, num, size, file, line, node_ok)
        /\ heap' = IF ptr # NULL THEN heap \cup {ptr} ELSE heap
        /\ pre' = g_memm
        /\ last' = [NoCall EXCEPT !.op = "calloc", !.size = (num * size) % SizeMod,
                                  !.ret = ptr,
                                  !.adapter = IF ptr # NULL THEN "ok" ELSE "fail",
                                  !.regfail = ptr # NULL /\ ~node_ok]

(* realloc that never unregisters the old address *)
memm_realloc_unregister_skip(m, ptr) == [m |-> m, found |-> FALSE]

(* the registry before realloc is asked: the old address is unregistered first *)
memm_realloc_unregister(m, ptr) ==
    IF ptr # NULL THEN memm_unregister_allocation(m, ptr) ELSE [m |-> m, found |-> FALSE]

(* realloc that leaves the record alone when the block did not move *)
memm_realloc_registry_inplace(m, ptr, new_ptr, size, file, line, node_ok) ==
    LET u == memm_realloc_unregister(m, ptr).m
    IN  IF new_ptr # NULL /\ new_ptr = ptr THEN m
        ELSE IF new_ptr # NULL
        THEN memm_register_allocation(u, new_ptr, size, file, line, node_ok)
        ELSE u

(* realloc that unregisters the old address only once the allocator succeeded *)
memm_realloc_registry_late(m, ptr, new_ptr, size, file, line, node_ok) ==
    IF new_ptr # NULL
    THEN memm_register_allocation(memm_realloc_unregister(m, ptr).m,
                                  new_ptr, size, file, line, node_ok)
    ELSE m

memm_realloc_registry(m, ptr, new_ptr, size, file, line, node_ok) ==
    LET u == memm_realloc_unregister(m, ptr).m
    IN  IF new_ptr # NULL
        THEN memm_register_allocation(u, new_ptr, size, file, line, node_ok)
        ELSE u

memm_realloc ==
    \E ptr \in Ptrs, size \in Sizes, file \in Files, line \in Lines :
      \E r \in raw_realloc(heap, ptr, size) :
      \E node_ok \in node_outcomes(r.ret) :
        /\ g_memm' = memm_realloc_registry(g_memm, ptr, r.ret, size, file, line, node_ok)
        /\ heap' = r.heap
        /\ pre' = g_memm
        /\ last' = [NoCall EXCEPT !.op = "realloc", !.ptr = ptr, !.size = size,
                                  !.ret = r.ret, !.adapter = r.how,
                                  !.found = memm_realloc_unregister(g_memm, ptr).found,
                                  !.regfail = r.ret # NULL /\ ~node_ok]

(* free that does not forward an untracked address to the raw free *)
memm_free_call_drop(m, h, ptr) ==
    LET u == memm_unregister_allocation(m, ptr)
    IN  IF u.found
        THEN [m |-> u.m, heap |-> raw_free(h, ptr), found |-> TRUE, releases |-> 1]
        ELSE [m |-> u.m, heap |-> h, found |-> FALSE, releases |-> 0]

(* both branches of memm_free forward the release to the raw free *)
memm_free_call(m, h, ptr) ==
    LET u == memm_unregister_allocation(m, ptr)
    IN  IF u.found
        THEN [m |-> u.m, heap |-> raw_free(h, ptr), found |-> TRUE, releases |-> 1]
        ELSE [m |-> u.m, heap |-> raw_free(h, ptr), found |-> FALSE, releases |-> 1]

memm_free ==
    \E ptr \in Ptrs :
      LET c == memm_free_call(g_memm, heap, ptr)
          follows == last.op = "malloc" /\ last.ret # NULL /\ last.ret = ptr
      IN  /\ g_memm' = c.m
          /\ heap' = c.heap
          /\ pre' = g_memm
          /\ last' = [NoCall EXCEPT !.op = "free", !.ptr = ptr, !.found = c.found,
                                    !.releases = c.releases,
                                    !.follows = follows,
                                    !.unregistered = /\ last.regfail
                                                     /\ last.ret = ptr,
                                    !.net0 = IF follows THEN Net(pre) ELSE 0]

-----------------------------------------------------------------------------
(* Getters *)

memm_get_current_usage(m) == (m.total_allocated - m.total_freed) % SizeMod

memm_get_peak_usage(m) == m.peak_memory

memm_get_allocation_count(m) == m.allocation_count

memm_get_free_count(m) == m.free_count

-----------------------------------------------------------------------------
(* printf-family formatting.  Text is a string; the caller's buffer is the
   string of its cells from cell 0 up to the last cell written, in which NUL
   stands for the terminator '\0' and JUNK for a cell never written (what the
   caller's memory held before).  Neither character occurs in any text.
   %p is printed the glibc way, "0x" and lowercase hex. *)

NUL == "$"

JUNK == "?"

Min(a, b) == IF a < b THEN a ELSE b

RECURSIVE junk(_)
junk(n) == IF n <= 0 THEN "" ELSE IF n = 1 THEN JUNK
           ELSE junk(n \div 2) \o junk(n - (n \div 2))

(* cell i (from 0) of the buffer *)
cell(mem, i) == IF i < Len(mem) THEN SubSeq(mem, i + 1, i + 1) ELSE JUNK

(* the buffer after `text` is stored from cell `at` on *)
poke(mem, at, text) ==
    LET base == IF Len(mem) < at THEN mem \o junk(at - Len(mem)) ELSE mem
    IN  SubSeq(base, 1, at) \o text \o SubSeq(base, at + Len(text) + 1, Len(base))

RECURSIVE fmt_zu(_)
fmt_zu(n) ==
    IF n < 10 THEN SubSeq("0123456789", n + 1, n + 1)
    ELSE fmt_zu(n \div 10) \o SubSeq("0123456789", (n % 10) + 1, (n % 10) + 1)

fmt_d(n) == IF n < 0 THEN "-" \o fmt_zu(-n) ELSE fmt_zu(n)

RECURSIVE fmt_x(_)
fmt_x(n) ==
    IF n < 16 THEN SubSeq("0123456789abcdef", n + 1, n + 1)
    ELSE fmt_x(n \div 16) \o SubSeq("0123456789abcdef", (n % 16) + 1, (n % 16) + 1)

fmt_p(ptr) == IF ptr = NULL THEN "(nil)" ELSE "0x" \o fmt_x(ptr)

RECURSIVE fmt_pad(_, _)
fmt_pad(str, width) == IF Len(str) >= width THEN str ELSE fmt_pad(" " \o str, width)

fmt_6zu(n) == fmt_pad(fmt_zu(n), 6)

(* snprintf(cursor, n, text): at most n - 1 characters of text and a NUL are
   stored from cell `cursor` on, nothing when n = 0; the return value is the
   length of the whole text.  (A negative return, an output error, cannot
   happen for these conversions; the callers' branches for it are kept.) *)
snprintf(mem, cursor, n, text) ==
    IF n = 0 THEN [mem |-> mem, written |-> Len(text)]
    ELSE [mem |-> poke(mem, cursor, SubSeq(text, 1, Min(Len(text), n - 1)) \o NUL),
          written |-> Len(text)]

store(mem, i, c) == poke(mem, i, c)

-----------------------------------------------------------------------------
(* Report functions: [ret, mem], mem the caller's buffer afterwards *)

stats_text(m) ==
    "=== MEMORY STATISTICS ===\n"
    \o "Total allocated:      " \o fmt_zu(m.total_allocated) \o " bytes\n"
    \o "Total freed:          " \o fmt_zu(m.total_freed) \o " bytes\n"
    \o "Current usage:        " \o fmt_zu(memm_get_current_usage(m)) \o " bytes\n"
    \o "Peak memory usage:    " \o fmt_zu(memm_get_peak_usage(m)) \o " bytes\n"
    \o "Allocation calls:     " \o fmt_zu(memm_get_allocation_count(m)) \o "\n"
    \o "Free calls:           " \o fmt_zu(memm_get_free_count(m)) \o "\n"
    \o "Potential leaks:      "
    \o fmt_zu((memm_get_allocation_count(m) - memm_get_free_count(m)) % SizeMod)
    \o " objects\n"
    \o "Hash table size:      " \o fmt_d(MEMM_HASH_TABLE_SIZE) \o " buckets\n"

(* stats report that returns snprintf's count also when the text was cut *)
memm_get_stats_string_uncut(m, buffer_ok, buffer_size) ==
    IF ~buffer_ok \/ buffer_size <= 0 THEN [ret |-> -1, mem |-> ""]
    ELSE LET p == snprintf("", 0, buffer_size, stats_text(m))
         IN  IF p.written < 0 THEN [ret |-> -1, mem |-> store(p.mem, 0, NUL)]
             ELSE [ret |-> p.written, mem |-> p.mem]

memm_get_stats_string(m, buffer_ok, buffer_size) ==
    IF ~buffer_ok \/ buffer_size <= 0 THEN [ret |-> -1, mem |-> ""]
    ELSE LET p == snprintf("", 0, buffer_size, stats_text(m))
         IN  IF p.written < 0 THEN [ret |-> -1, mem |-> store(p.mem, 0, NUL)]
             ELSE IF p.written >= buffer_size
             THEN [ret |-> buffer_size - 1, mem |-> store(p.mem, buffer_size - 1, NUL)]
             ELSE [ret |-> p.written, mem |-> p.mem]

(* the texts of the two listing reports; kind is "allocations" or "leaks" *)
header_text(kind) ==
    IF kind = "allocations" THEN "=== CURRENT ALLOCATIONS ===\n"
    ELSE "=== MEMORY LEAK REPORT ===\n"

record_text(kind, current) ==
    IF kind = "allocations"
    THEN "  " \o fmt_p(current.ptr) \o ": " \o fmt_6zu(current.size) \o " bytes @ "
         \o current.file \o ":" \o fmt_d(current.line) \o "\n"
    ELSE "  LEAK: " \o fmt_6zu(current.size) \o " bytes at " \o fmt_p(current.ptr)
         \o " (" \o current.file \o ":" \o fmt_d(current.line) \o ")\n"

empty_text(kind) ==
    IF kind = "allocations" THEN "  No active allocations\n"
    ELSE "  No memory leaks detected!\n"

total_text(kind, count, bytes) ==
    IF kind = "allocations"
    THEN "  Total: " \o fmt_zu(count) \o " allocations, " \o fmt_zu(bytes) \o " bytes\n"
    ELSE "  TOTAL LEAKS: " \o fmt_zu(count) \o " allocations, " \o fmt_zu(bytes)
         \o " bytes\n"

(* loop body without the clamp of `written` to remaining - 1 *)
report_record_noclamp(kind, st, current) ==
    LET p == snprintf(st.mem, st.cursor, st.remaining, record_text(kind, current))
        written == p.written
    IN  [mem |-> p.mem,
         cursor |-> st.cursor + written,
         remaining |-> (st.remaining - written) % SizeMod,
         total_written |-> st.total_written + written,
         total_count |-> (st.total_count + 1) % SizeMod,
         total_bytes |-> (st.total_bytes + current.size) % SizeMod]

(* one pass of the inner while loop body: st is the function's locals *)
report_record(kind, st, current) ==
    LET p == snprintf(st.mem, st.cursor, st.remaining, record_text(kind, current))
        written == IF p.written >= st.remaining THEN st.remaining - 1 ELSE p.written
    IN  [mem |-> p.mem,
         cursor |-> st.cursor + written,
         remaining |-> (st.remaining - written) % SizeMod,
         total_written |-> st.total_written + written,
         total_count |-> (st.total_count + 1) % SizeMod,
         total_bytes |-> (st.total_bytes + current.size) % SizeMod]

(* chain walk that lists the head of a chain and does not go on to the next record *)
report_chain_first(kind, st, chain, k) ==
    IF k <= Len(chain) /\ st.remaining > 1
    THEN report_record(kind, st, chain[k])
    ELSE st

RECURSIVE report_chain(_, _, _, _)
report_chain(kind, st, chain, k) ==
    IF k <= Len(chain) /\ st.remaining > 1
    THEN report_chain(kind, report_record(kind, st, chain[k]), chain, k + 1)
    ELSE st

RECURSIVE report_buckets(_, _, _, _)
report_buckets(kind, st, m, i) ==
    IF i < MEMM_HASH_TABLE_SIZE /\ st.remaining > 1
    THEN report_buckets(kind, report_chain(kind, st, m.hash_table[i], 1), m, i + 1)
    ELSE st

(* the closing line and the final termination check *)
report_summary(kind, st, buffer_size) ==
    LET text == IF st.total_count = 0 THEN empty_text(kind)
                ELSE total_text(kind, st.total_count, st.total_bytes)
        p == IF st.remaining > 1
             THEN snprintf(st.mem, st.cursor, st.remaining, text)
             ELSE [mem |-> st.mem, written |-> 0]
        written == IF p.written >= st.remaining THEN st.remaining - 1 ELSE p.written
        total_written == IF st.remaining > 1 /\ p.written > 0
                         THEN st.total_written + written
                         ELSE st.total_written
    IN  [ret |-> total_written,
         mem |-> IF st.remaining = 0 /\ buffer_size > 0
                 THEN store(p.mem, buffer_size - 1, NUL)
                 ELSE p.mem]

report_string(kind, m, buffer_ok, buffer_size) ==
    IF ~buffer_ok \/ buffer_size = 0 THEN [ret |-> -1, mem |-> ""]
    ELSE LET p == snprintf("", 0, buffer_size, header_text(kind))
         IN  IF p.written < 0 THEN [ret |-> -1, mem |-> store(p.mem, 0, NUL)]
             ELSE IF p.written >= buffer_size
             THEN [ret |-> buffer_size - 1, mem |-> store(p.mem, buffer_size - 1, NUL)]
             ELSE report_summary(kind,
                      report_buckets(kind,
                          [mem |-> p.mem,
                           cursor |-> p.written,
                           remaining |-> (buffer_size - p.written) % SizeMod,
                           total_written |-> p.written,
                           total_count |-> 0,
                           total_bytes |-> 0],
                          m, 0),
                      buffer_size)

memm_get_allocations_string(m, buffer_ok, buffer_size) ==
    report_string("allocations", m, buffer_ok, buffer_size)

memm_get_leaks_string(m, buffer_ok, buffer_size) ==
    report_string("leaks", m, buffer_ok, buffer_size)

(* what a caller may pass: a buffer of any capacity up to MaxCap, or no buffer *)
ReportArgs ==
    {[buffer_ok |-> TRUE, buffer_size |-> c] : c \in 0 .. MaxCap}
    \cup {[buffer_ok |-> FALSE, buffer_size |-> c] : c \in {0, MaxCap}}

IsReport(c) == c.op \in {"stats", "allocations", "leaks"}

(* A report may be called at any time and reads the registry only.  What it
   leads to depends on the registry, not on the call before it, so it is
   explored once per registry: after the call that changed the registry (or
   at start), and after a report as a repeat of that report. *)
ReportExplored(op, a) ==
    IF IsReport(last)
    THEN last.op = op /\ last.buffer_ok = a.buffer_ok /\ last.buffer_size = a.buffer_size
    ELSE last.op = "none" \/ g_memm # pre

(* a report that takes its scratch space from the tracked allocator and so
   counts an allocation and a release *)
Report_counted(op, a, r) ==
    /\ ReportExplored(op, a)
    /\ g_memm' = [g_memm EXCEPT !.allocation_count = (@ + 1) % SizeMod,
                                !.free_count = (@ + 1) % SizeMod]
    /\ heap' = heap
    /\ pre' = g_memm
    /\ last' = [NoCall EXCEPT !.op = op, !.ret = r.ret, !.buffer = r.mem,
                              !.buffer_ok = a.buffer_ok, !.buffer_size = a.buffer_size]

Report(op, a, r) ==
    /\ ReportExplored(op, a)
    /\ UNCHANGED <<g_memm, heap>>
    /\ pre' = g_memm
    /\ last' = [NoCall EXCEPT !.op = op, !.ret = r.ret, !.buffer = r.mem,
                              !.buffer_ok = a.buffer_ok, !.buffer_size = a.buffer_size]

stats_report ==
    \E a \in ReportArgs :
        Report("stats", a, memm_get_stats_string(g_memm, a.buffer_ok, a.buffer_size))

(* the listings called with arguments out of A *)
allocations_report_of(A) ==
    \E a \in A :
        Report("allocations", a,
               memm_get_allocations_string(g_memm, a.buffer_ok, a.buffer_size))

allocations_report == allocations_report_of(ReportArgs)

leaks_report_of(A) ==
    \E a \in A :
        Report("leaks", a, memm_get_leaks_string(g_memm, a.buffer_ok, a.buffer_size))

leaks_report == leaks_report_of(ReportArgs)

(* What the registry holds *)

RecordCount(m, ptr) ==
    Cardinality({<<i, k>> \in Buckets \X (1 .. MaxAllocs + MaxAddr) :
                    k <= Len(m.hash_table[i]) /\ m.hash_table[i][k].ptr = ptr})

TotalRecords(m) ==
    Cardinality({<<i, k>> \in Buckets \X (1 .. MaxAllocs + MaxAddr) :
                    k <= Len(m.hash_table[i])})

(* the size unregister would take off: that of the first record with this ptr *)
RecordSize(m, ptr) ==
    LET chain == m.hash_table[memm_hash_ptr(ptr)]
    IN  chain[chain_find(chain, ptr, 1)].size

Counters(m) ==
    <<m.total_allocated, m.total_freed, m.peak_memory, m.allocation_count, m.free_count>>

IsAlloc(c) == c.op \in {"malloc", "calloc", "realloc"}

(* The whole text of a report of registry m, were the capacity unlimited:
   the header, the record lines of the chains from `from` on, the closing line *)
RECURSIVE ChainLines(_, _, _)
ChainLines(kind, chain, k) ==
    IF k > Len(chain) THEN ""
    ELSE record_text(kind, chain[k]) \o ChainLines(kind, chain, k + 1)

RECURSIVE BucketLines(_, _, _)
BucketLines(kind, m, i) ==
    IF i >= MEMM_HASH_TABLE_SIZE THEN ""
    ELSE ChainLines(kind, m.hash_table[i], 1) \o BucketLines(kind, m, i + 1)

RECURSIVE SumSizes(_, _)
SumSizes(chain, k) ==
    IF k > Len(chain) THEN 0 ELSE chain[k].size + SumSizes(chain, k + 1)

RECURSIVE LiveBytes(_, _)
LiveBytes(m, i) ==
    IF i >= MEMM_HASH_TABLE_SIZE THEN 0
    ELSE SumSizes(m.hash_table[i], 1) + LiveBytes(m, i + 1)

FullText(kind, m) ==
    IF kind = "stats" THEN stats_text(m)
    ELSE header_text(kind) \o BucketLines(kind, m, 0)
         \o (IF TotalRecords(m) = 0 THEN empty_text(kind)
             ELSE total_text(kind, TotalRecords(m), LiveBytes(m, 0)))

-----------------------------------------------------------------------------
(* The counters grow without bound; a run is explored while fewer than
   MaxAllocs allocations have been counted. *)
Scope == g_memm.allocation_count < MaxAllocs

Next ==
    \/ memm_init /\ UNCHANGED journal
    \/ memm_shutdown /\ UNCHANGED journal
    \/ Scope /\ memm_malloc /\ UNCHANGED journal
    \/ Scope /\ memm_calloc /\ UNCHANGED journal
    \/ Scope /\ memm_realloc /\ UNCHANGED journal
    \/ memm_free /\ UNCHANGED journal

Spec == Init /\ [][Next]_vars

(* The reports are functions of the registry alone.  They are applied, with
   every capacity up to MaxCap, to the registries that runs of memm_malloc and
   memm_free build, blocks of MaxSize bytes, none being asked for while an
   untracked one is outstanding.  A report leaves g_memm and heap as they are, so the calls
   that may follow it are those that may follow the state before it, and are
   explored from there. *)
ReportScope == Scope /\ \A a \in heap : HasRecord(g_memm, a)

NextReports ==
    \/ ~IsReport(last) /\ ReportScope /\ memm_malloc /\ last'.size = MaxSize
           /\ UNCHANGED journal
    \/ ~IsReport(last) /\ memm_free /\ UNCHANGED journal
    \/ stats_report /\ UNCHANGED journal
    \/ allocations_report /\ UNCHANGED journal
    \/ leaks_report /\ UNCHANGED journal

SpecReports == Init /\ [][NextReports]_vars

(* The four tracked operations alone, from the zero-valued registry: no
   memm_shutdown and no second memm_init. *)
NextTracked ==
    \/ Scope /\ memm_malloc /\ UNCHANGED journal
    \/ Scope /\ memm_calloc /\ UNCHANGED journal
    \/ Scope /\ memm_realloc /\ UNCHANGED journal
    \/ memm_free /\ UNCHANGED journal

TrackedSpec == Init /\ [][NextTracked]_vars

(* A client of the tracked API in the manner of test_function: it asks for
   blocks of 10, 20, 30, ... bytes in this order, every request being granted
   and registered, and releases blocks it holds, in any interleaving; it notes
   each call in `journal`.  It asks for the two listings with a buffer that
   just holds the report or with one of MaxCap bytes. *)
JournalAllocs(j) == Cardinality({n \in 1 .. Len(j) : j[n].op = "alloc"})

(* the blocks noted as obtained and not given back, oldest first; giving back
   an address takes the latest block noted for it *)
RECURSIVE Live(_)
Live(j) ==
    IF j = <<>> THEN <<>>
    ELSE LET e == j[Len(j)]
             before == Live(SubSeq(j, 1, Len(j) - 1))
             at == {n \in 1 .. Len(before) : before[n].ptr = e.ptr}
             latest == CHOOSE n \in at : \A o \in at : o <= n
         IN  IF e.op = "alloc" THEN Append(before, [ptr |-> e.ptr, size |-> e.size])
             ELSE IF at = {} THEN before
             ELSE SubSeq(before, 1, latest - 1) \o SubSeq(before, latest + 1, Len(before))

LivePtrs(j) == {Live(j)[n].ptr : n \in 1 .. Len(Live(j))}

client_alloc ==
    /\ Len(journal) < MaxJournal
    /\ memm_malloc_of({10 * (JournalAllocs(journal) + 1)})
    /\ last'.adapter = "ok" /\ ~last'.regfail
    /\ journal' = Append(journal, [op |-> "alloc", ptr |-> last'.ret, size |-> last'.size])

client_release ==
    /\ Len(journal) < MaxJournal
    /\ memm_free
    /\ last'.ptr \in LivePtrs(journal)
    /\ journal' = Append(journal, [op |-> "free", ptr |-> last'.ptr, size |-> 0])

(* a buffer that just holds the whole listing, or one of MaxCap bytes *)
RoomyArgs(kind) ==
    {[buffer_ok |-> TRUE, buffer_size |-> c] :
        c \in {Len(FullText(kind, g_memm)) + 1, MaxCap}}

client_listing ==
    /\ \/ allocations_report_of(RoomyArgs("allocations"))
       \/ leaks_report_of(RoomyArgs("leaks"))
    /\ UNCHANGED journal

NextClient ==
    \/ ~IsReport(last) /\ client_alloc
    \/ ~IsReport(last) /\ client_release
    \/ client_listing

ClientSpec == Init /\ [][NextClient]_vars

(* The two static functions of the registry applied directly, to any address
   in any order, an address already registered included (the wrappers never
   do that while the allocator hands out addresses it does not hold).  The
   sizes are 10, 20, 30, ... in call order, so every record is told apart;
   the calls are noted in `journal`. *)
register_call ==
    /\ Len(journal) < MaxJournal
    /\ \E ptr \in Ptrs, file \in Files, line \in Lines :
       \E node_ok \in node_outcomes(ptr) :
         LET size == 10 * (JournalAllocs(journal) + 1)
         IN  /\ g_memm' = memm_register_allocation(g_memm, ptr, size, file, line, node_ok)
             /\ last' = [NoCall EXCEPT !.op = "register", !.ptr = ptr, !.size = size,
                                       !.regfail = ptr # NULL /\ ~node_ok]
             /\ journal' = IF ptr # NULL /\ node_ok
                           THEN Append(journal, [op |-> "alloc", ptr |-> ptr, size |-> size])
                           ELSE journal
    /\ heap' = heap
    /\ pre' = g_memm

unregister_call ==
    /\ Len(journal) < MaxJournal
    /\ \E ptr \in Ptrs :
         LET u == memm_unregister_allocation(g_memm, ptr)
         IN  /\ g_memm' = u.m
             /\ last' = [NoCall EXCEPT !.op = "unregister", !.ptr = ptr, !.found = u.found]
             /\ journal' = IF ptr \in LivePtrs(journal)
                           THEN Append(journal, [op |-> "free", ptr |-> ptr, size |-> 0])
                           ELSE journal
    /\ heap' = heap
    /\ pre' = g_memm

NextRegistry ==
    \/ ~IsReport(last) /\ register_call
    \/ ~IsReport(last) /\ unregister_call
    \/ client_listing

RegistrySpec == Init /\ [][NextRegistry]_vars

-----------------------------------------------------------------------------
(* C1: the registry holds at most one live record per address, and an address
   that the allocator returns (again) to a call that registers it is tracked
   by exactly one record. *)
C1_OneRecordPerAddress ==
    /\ \A a \in Addrs : RecordCount(g_memm, a) <= 1
    /\ (IsAlloc(last) /\ last.ret # NULL /\ ~last.regfail)
          => RecordCount(g_memm, last.ret) = 1

(* an address is unregistered by realloc and returned again by the allocator *)
C1_Witness ==
    /\ last.op = "realloc" /\ last.found /\ last.ret = last.ptr /\ ~last.regfail
    /\ RecordCount(g_memm, last.ret) = 1
    /\ g_memm.allocation_count = 2 /\ g_memm.free_count = 1

(* C2: after every call memm_get_current_usage is total_allocated - total_freed
   and total_freed <= total_allocated, so the unsigned subtraction does not wrap. *)
C2_UsageNeverNegative ==
    /\ g_memm.total_freed <= g_memm.total_allocated
    /\ memm_get_current_usage(g_memm) = g_memm.total_allocated - g_memm.total_freed

C2_Witness ==
    /\ last.op = "free" /\ last.found
    /\ g_memm.total_freed > 0
    /\ g_memm.total_freed < g_memm.total_allocated

(* C3: in every state peak_memory >= current usage. *)
C3_PeakAtLeastUsage ==
    memm_get_peak_usage(g_memm) >= memm_get_current_usage(g_memm)

C3_Witness ==
    /\ IsAlloc(last) /\ last.ret # NULL /\ ~last.regfail
    /\ g_memm.free_count > 0
    /\ memm_get_current_usage(g_memm) > 0
    /\ memm_get_peak_usage(g_memm) = memm_get_current_usage(g_memm)
    /\ memm_get_peak_usage(g_memm) > pre.peak_memory

(* C4 as stated: no step of any API operation decreases any of the five counters. *)
C4_NoCounterDecreases ==
    [][\A n \in 1 .. 5 : Counters(g_memm')[n] >= Counters(g_memm)[n]]_vars

(* C4 amended: no step of any API operation other than memm_init decreases
   any of the five counters. *)
C4_NoCounterDecreasesButInit ==
    [][last'.op # "init" =>
         \A n \in 1 .. 5 : Counters(g_memm')[n] >= Counters(g_memm)[n]]_vars

(* shutdown is called on a registry with live records and non-zero counters *)
C4_Witness ==
    /\ last.op = "shutdown"
    /\ TotalRecords(pre) > 0
    /\ \A n \in 1 .. 5 : Counters(g_memm)[n] > 0

(* C5: memm_free of a non-null address with no live record finds nothing,
   changes no counter and no chain, and still calls the raw free exactly once. *)
C5_UntrackedRelease ==
    (last.op = "free" /\ last.ptr # NULL /\ ~HasRecord(pre, last.ptr))
        => (~last.found /\ g_memm = pre /\ last.releases = 1)

(* an untracked address whose bucket chain holds another record *)
C5_Witness ==
    /\ last.op = "free" /\ last.ptr # NULL /\ ~HasRecord(pre, last.ptr)
    /\ Len(pre.hash_table[memm_hash_ptr(last.ptr)]) > 0

(* what a successful resize of a tracked address does to the registry *)
ResizeReplaces ==
    /\ g_memm.total_freed = pre.total_freed + RecordSize(pre, last.ptr)
    /\ g_memm.total_allocated = pre.total_allocated + last.size
    /\ g_memm.allocation_count = pre.allocation_count + 1
    /\ g_memm.free_count = pre.free_count + 1
    /\ TotalRecords(g_memm) = TotalRecords(pre)
    /\ RecordCount(g_memm, last.ret) = 1
    /\ RecordSize(g_memm, last.ret) = last.size
    /\ (last.ret # last.ptr => ~HasRecord(g_memm, last.ptr))

(* C6 as stated: whenever the allocator succeeds in a memm_realloc of a tracked
   address, one unregister (old) and one register (new) happen. *)
C6_ResizeReplacesAlways ==
    (last.op = "realloc" /\ HasRecord(pre, last.ptr) /\ last.adapter = "ok")
        => ResizeReplaces

(* C6 amended: the same, when register also obtains storage for the new record. *)
C6_ResizeReplaces ==
    (last.op = "realloc" /\ HasRecord(pre, last.ptr) /\ last.adapter = "ok"
        /\ ~last.regfail)
        => ResizeReplaces

(* a tracked block is moved and resized down to a smaller non-zero size *)
C6_Witness ==
    /\ last.op = "realloc" /\ HasRecord(pre, last.ptr) /\ last.adapter = "ok"
    /\ ~last.regfail
    /\ last.ret # last.ptr
    /\ last.size > 0
    /\ last.size < RecordSize(pre, last.ptr)

(* C7: when the allocator fails a memm_realloc of a tracked non-null address the
   call returns NULL, the old record is already removed and counted as freed,
   nothing is registered, and the block is still allocated in the allocator. *)
C7_FailedResizeUntracks ==
    (last.op = "realloc" /\ last.ptr # NULL /\ HasRecord(pre, last.ptr)
        /\ last.adapter = "fail")
        => /\ last.ret = NULL
           /\ g_memm.total_freed = pre.total_freed + RecordSize(pre, last.ptr)
           /\ g_memm.free_count = pre.free_count + 1
           /\ g_memm.total_allocated = pre.total_allocated
           /\ g_memm.allocation_count = pre.allocation_count
           /\ g_memm.peak_memory = pre.peak_memory
           /\ TotalRecords(g_memm) = TotalRecords(pre) - 1
           /\ ~HasRecord(g_memm, last.ptr)
           /\ last.ptr \in heap

C7_Witness ==
    /\ last.op = "realloc" /\ last.ptr # NULL /\ HasRecord(pre, last.ptr)
    /\ last.adapter = "fail"
    /\ last.size > 0
    /\ RecordSize(pre, last.ptr) > 0

(* C8: when the allocator fails a memm_malloc or memm_calloc the call returns
   NULL and the registry (chains and counters) is unchanged. *)
C8_FailedAllocationKeepsRegistry ==
    (last.op \in {"malloc", "calloc"} /\ last.adapter = "fail")
        => (last.ret = NULL /\ g_memm = pre)

C8_Witness ==
    /\ last.op \in {"malloc", "calloc"} /\ last.adapter = "fail"
    /\ last.size > 0
    /\ TotalRecords(pre) >= 1

(* C9: a memm_malloc that returns an address, directly followed by memm_free of
   that address, leaves allocation_count - free_count as it was before the
   pair, and no record with that address in any chain. *)
C9_AllocateReleaseRoundTrip ==
    (last.op = "free" /\ last.follows)
        => (Net(g_memm) = last.net0 /\ ~HasRecord(g_memm, last.ptr))

C9_Witness ==
    /\ last.op = "free" /\ last.follows /\ last.found
    /\ TotalRecords(g_memm) >= 1
    /\ Net(g_memm) = last.net0

(* C10: with a buffer of capacity >= 1 a report writes only cells
   0 .. capacity-1 and leaves a terminator among them; with capacity 0 or no
   buffer it returns a negative value and writes nothing. *)
HasNul(mem) == \E i \in 1 .. Len(mem) : cell(mem, Len(mem) - i) = NUL

C10_ReportsStayInBuffer ==
    IsReport(last) =>
        IF last.buffer_ok /\ last.buffer_size >= 1
        THEN Len(last.buffer) <= last.buffer_size /\ HasNul(last.buffer)
        ELSE last.ret < 0 /\ last.buffer = ""

(* a listing of two records cut in the second record line *)
C10_Witness ==
    /\ last.op = "leaks" /\ last.buffer_ok
    /\ TotalRecords(g_memm) = 2
    /\ last.buffer_size = Len(header_text("leaks")) + 40
    /\ Len(last.buffer) = last.buffer_size
    /\ last.ret = last.buffer_size - 1

-----------------------------------------------------------------------------
(* n is the number of cells of the buffer before its first terminator *)
StrLenIs(mem, n) ==
    /\ n >= 0 /\ n < Len(mem)
    /\ cell(mem, n) = NUL
    /\ \A j \in 0 .. n - 1 : cell(mem, j) # NUL

(* C11: a report given a buffer of capacity >= 1 returns a non-negative value
   equal to the number of bytes before the terminator; when the whole report
   fits that is the whole report, and when it does not fit the value is
   capacity - 1. *)
C11_ReturnIsLength ==
    (IsReport(last) /\ last.buffer_ok /\ last.buffer_size >= 1) =>
        /\ last.ret >= 0
        /\ StrLenIs(last.buffer, last.ret)
        /\ IF Len(FullText(last.op, g_memm)) < last.buffer_size
           THEN last.buffer = FullText(last.op, g_memm) \o NUL
           ELSE last.ret = last.buffer_size - 1

(* a listing of two records whose first record line takes all the room that
   is left, so that the second line and the summary are omitted *)
C11_Witness ==
    /\ last.op = "allocations" /\ last.buffer_ok
    /\ TotalRecords(g_memm) = 2
    /\ \E i \in Buckets :
          /\ Len(g_memm.hash_table[i]) >= 1
          /\ last.buffer_size = Len(header_text("allocations"))
                 + Len(record_text("allocations", g_memm.hash_table[i][1])) + 1
    /\ last.ret = last.buffer_size - 1
    /\ Len(FullText("allocations", g_memm)) > last.buffer_size

-----------------------------------------------------------------------------
(* text occurs in the buffer *)
Contains(mem, text) ==
    \E i \in 1 .. Len(mem) - Len(text) + 1 : SubSeq(mem, i, i + Len(text) - 1) = text

(* the record line of a block the client holds (its only call site) *)
BlockLine(kind, b) ==
    record_text(kind, memm_allocation_t(b.ptr, b.size, CHOOSE f \in Files : TRUE,
                                        CHOOSE l \in Lines : TRUE))

RECURSIVE BlockBytes(_, _)
BlockBytes(blocks, n) ==
    IF n > Len(blocks) THEN 0 ELSE blocks[n].size + BlockBytes(blocks, n + 1)

RECURSIVE BlockLinesLen(_, _, _)
BlockLinesLen(kind, blocks, n) ==
    IF n > Len(blocks) THEN 0
    ELSE Len(BlockLine(kind, blocks[n])) + BlockLinesLen(kind, blocks, n + 1)

(* the listing is the header, one line per block of `blocks` and nothing
   else, and the closing line with their number and total size *)
ListsExactly(kind, mem, blocks) ==
    LET closing == IF blocks = <<>> THEN empty_text(kind)
                   ELSE total_text(kind, Len(blocks), BlockBytes(blocks, 1))
        tail == closing \o NUL
    IN  /\ Len(mem) = Len(header_text(kind)) + BlockLinesLen(kind, blocks, 1) + Len(tail)
        /\ SubSeq(mem, 1, Len(header_text(kind))) = header_text(kind)
        /\ SubSeq(mem, Len(mem) - Len(tail) + 1, Len(mem)) = tail
        /\ \A n \in 1 .. Len(blocks) : Contains(mem, BlockLine(kind, blocks[n]))

(* the client asked for 10, 20 and 30 bytes and then released the second block *)
TenTwentyThirty ==
    /\ Len(journal) = 4
    /\ \A n \in 1 .. 3 : journal[n].op = "alloc" /\ journal[n].size = 10 * n
    /\ journal[4].op = "free" /\ journal[4].ptr = journal[2].ptr

(* C12: after any sequence of successful tracked allocations and releases of
   blocks allocated before, a listing given enough room has exactly one line
   per block allocated and not released, and its closing line gives their
   number and total size (the "no ..." line when there is none); after
   allocating 10, 20, 30 and releasing the second the counters are 3, 1,
   usage 40, peak 60 and the listing has 2 entries totalling 40 bytes. *)
C12_ListingMatchesLiveBlocks ==
    /\ (last.op \in {"allocations", "leaks"} /\ last.buffer_ok
          /\ last.buffer_size > Len(FullText(last.op, g_memm)))
        => ListsExactly(last.op, last.buffer, Live(journal))
    /\ TenTwentyThirty =>
          /\ memm_get_allocation_count(g_memm) = 3
          /\ memm_get_free_count(g_memm) = 1
          /\ memm_get_current_usage(g_memm) = 40
          /\ memm_get_peak_usage(g_memm) = 60
          /\ Len(Live(journal)) = 2 /\ BlockBytes(Live(journal), 1) = 40

(* the leak report of the 10, 20, 30 scenario *)
C12_Witness ==
    /\ TenTwentyThirty
    /\ last.op = "leaks" /\ last.buffer_ok
    /\ last.buffer_size = last.ret + 1
    /\ Contains(last.buffer, total_text("leaks", 2, 40))

-----------------------------------------------------------------------------
(* C13 as stated: after memm_shutdown every bucket chain is empty and the five
   counters are back to the zero-valued state that memm_init produces. *)
C13_ShutdownResetsAll ==
    last.op = "shutdown" => g_memm = g_memm_zero

(* C13 amended: after memm_shutdown every bucket chain is empty and the five
   counters have the values they had before the call. *)
C13_ShutdownClearsChains ==
    last.op = "shutdown" =>
        /\ \A i \in Buckets : g_memm.hash_table[i] = <<>>
        /\ Counters(g_memm) = Counters(pre)

(* shutdown of a registry with a record in each bucket *)
C13_Witness ==
    /\ last.op = "shutdown"
    /\ \A i \in Buckets : Len(pre.hash_table[i]) >= 1
    /\ memm_get_current_usage(g_memm) > 0
    /\ TotalRecords(g_memm) = 0

-----------------------------------------------------------------------------
(* what the report function named op gives for registry m *)
ReportOf(op, m, buffer_ok, buffer_size) ==
    IF op = "stats" THEN memm_get_stats_string(m, buffer_ok, buffer_size)
    ELSE IF op = "allocations" THEN memm_get_allocations_string(m, buffer_ok, buffer_size)
    ELSE memm_get_leaks_string(m, buffer_ok, buffer_size)

Getters(m) ==
    <<memm_get_current_usage(m), memm_get_peak_usage(m),
      memm_get_allocation_count(m), memm_get_free_count(m)>>

(* C14: a report call, with any buffer and capacity, leaves every chain and
   all five counters as they were, the getters give what they gave before it,
   and the same call made again right after it gives the same bytes and the
   same return value. *)
C14_ReportsReadOnly ==
    [][IsReport(last') =>
         /\ g_memm'.hash_table = g_memm.hash_table
         /\ Counters(g_memm') = Counters(g_memm)
         /\ Getters(g_memm') = Getters(g_memm)
         /\ LET again == ReportOf(last'.op, g_memm', last'.buffer_ok, last'.buffer_size)
            IN  again.mem = last'.buffer /\ again.ret = last'.ret]_vars

(* a stats report of a registry with a record and a release behind it *)
C14_Witness ==
    /\ last.op = "stats" /\ last.buffer_ok
    /\ last.ret = Len(stats_text(g_memm))
    /\ TotalRecords(g_memm) >= 1
    /\ memm_get_free_count(g_memm) >= 1

-----------------------------------------------------------------------------
(* C15: when register cannot obtain storage for the record, the tracked
   malloc/calloc/realloc still returns the allocator's non-null address, no
   record is added and total_allocated, allocation_count and peak_memory are
   unchanged; a memm_free of that address right after is an untracked release
   that changes no counter. *)
C15_RegistrationFailureUntracked ==
    /\ (IsAlloc(last) /\ last.regfail) =>
          /\ last.ret # NULL /\ last.adapter = "ok" /\ last.ret \in heap
          /\ ~HasRecord(g_memm, last.ret)
          /\ TotalRecords(g_memm) <= TotalRecords(pre)
          /\ g_memm.total_allocated = pre.total_allocated
          /\ g_memm.allocation_count = pre.allocation_count
          /\ g_memm.peak_memory = pre.peak_memory
          /\ (last.op # "realloc" => g_memm = pre)
    /\ (last.op = "free" /\ last.unregistered) =>
          /\ ~last.found /\ last.releases = 1
          /\ g_memm = pre

(* the release of a block of non-zero size whose registration failed, while
   another block is tracked *)
C15_Witness ==
    /\ last.op = "free" /\ last.unregistered
    /\ last.ptr \notin heap
    /\ TotalRecords(g_memm) >= 1
    /\ memm_get_current_usage(g_memm) > 0

-----------------------------------------------------------------------------
(* C16: every record with address a is linked in the chain of bucket
   a masked with N - 1, which is a mod N, and in no other; so unregister, which
   scans that bucket only, finds a record whenever the registry holds one. *)
C16_RecordInItsBucket ==
    /\ \A i \in Buckets : \A k \in 1 .. Len(g_memm.hash_table[i]) :
          /\ i = g_memm.hash_table[i][k].ptr % MEMM_HASH_TABLE_SIZE
          /\ i = BitAnd(g_memm.hash_table[i][k].ptr, MEMM_HASH_TABLE_SIZE - 1)
    /\ \A a \in Addrs :
          memm_unregister_allocation(g_memm, a).found <=> HasRecord(g_memm, a)
    /\ (last.op \in {"free", "realloc"} /\ last.ptr # NULL)
          => (last.found <=> HasRecord(pre, last.ptr))

(* a release that finds its record behind another one in a shared bucket *)
C16_Witness ==
    /\ last.op = "free" /\ last.found
    /\ \E i \in Buckets :
          /\ Len(pre.hash_table[i]) = 2
          /\ pre.hash_table[i][2].ptr = last.ptr
          /\ Len(g_memm.hash_table[i]) = 1

-----------------------------------------------------------------------------
(* the blocks noted for address ptr, oldest first *)
RECURSIVE BlocksAt(_, _, _)
BlocksAt(blocks, ptr, n) ==
    IF n > Len(blocks) THEN <<>>
    ELSE (IF blocks[n].ptr = ptr THEN <<blocks[n]>> ELSE <<>>)
         \o BlocksAt(blocks, ptr, n + 1)

(* the records of address ptr as the registry holds them, in chain order *)
RECURSIVE RecordsAt(_, _, _)
RecordsAt(chain, ptr, k) ==
    IF k > Len(chain) THEN <<>>
    ELSE (IF chain[k].ptr = ptr THEN <<[ptr |-> ptr, size |-> chain[k].size]>> ELSE <<>>)
         \o RecordsAt(chain, ptr, k + 1)

Reverse(q) == [n \in 1 .. Len(q) |-> q[Len(q) + 1 - n]]

JournalBefore == SubSeq(journal, 1, Len(journal) - 1)

(* C17: when an address was registered twice with no unregister in between,
   one unregister of it removes exactly one record, the one registered last,
   adds that record's size (not the older one's) to total_freed, and leaves
   the older record in the chain, where a later lookup finds it. *)
C17_ShadowRemovedNewestFirst ==
    (last.op = "unregister" /\ last.ptr # NULL /\ journal # <<>>
        /\ journal[Len(journal)] = [op |-> "free", ptr |-> last.ptr, size |-> 0]
        /\ Len(BlocksAt(Live(JournalBefore), last.ptr, 1)) >= 2) =>
      LET held == BlocksAt(Live(JournalBefore), last.ptr, 1)
          newest == held[Len(held)]
          chain == g_memm.hash_table[memm_hash_ptr(last.ptr)]
      IN  /\ last.found
          /\ TotalRecords(g_memm) = TotalRecords(pre) - 1
          /\ RecordsAt(chain, last.ptr, 1) = Reverse(SubSeq(held, 1, Len(held) - 1))
          /\ g_memm.total_freed = pre.total_freed + newest.size
          /\ g_memm.free_count = pre.free_count + 1
          /\ HasRecord(g_memm, last.ptr)
          /\ memm_unregister_allocation(g_memm, last.ptr).found
          /\ RecordSize(g_memm, last.ptr) = held[Len(held) - 1].size

(* an address registered twice, another address registered in the same bucket
   in between, and one unregister of the shadowed address *)
C17_Witness ==
    /\ last.op = "unregister" /\ last.found
    /\ Len(BlocksAt(Live(JournalBefore), last.ptr, 1)) = 2
    /\ Len(pre.hash_table[memm_hash_ptr(last.ptr)]) = 3
    /\ pre.hash_table[memm_hash_ptr(last.ptr)][2].ptr # last.ptr
    /\ RecordCount(g_memm, last.ptr) = 1

-----------------------------------------------------------------------------
(* the noted blocks whose address falls in bucket i, oldest first *)
RECURSIVE BlocksIn(_, _, _)
BlocksIn(blocks, i, n) ==
    IF n > Len(blocks) THEN <<>>
    ELSE (IF blocks[n].ptr % MEMM_HASH_TABLE_SIZE = i THEN <<blocks[n]>> ELSE <<>>)
         \o BlocksIn(blocks, i, n + 1)

RECURSIVE LinesOf(_, _, _)
LinesOf(kind, blocks, n) ==
    IF n > Len(blocks) THEN ""
    ELSE BlockLine(kind, blocks[n]) \o LinesOf(kind, blocks, n + 1)

(* the record lines in the order claimed: buckets by increasing index, in a
   bucket the block registered last first *)
RECURSIVE LinesInOrder(_, _, _)
LinesInOrder(kind, blocks, i) ==
    IF i >= MEMM_HASH_TABLE_SIZE THEN ""
    ELSE LinesOf(kind, Reverse(BlocksIn(blocks, i, 1)), 1)
         \o LinesInOrder(kind, blocks, i + 1)

(* `after` is `before` with one element taken out *)
Drops(before, after) ==
    \E k \in 1 .. Len(before) :
        after = SubSeq(before, 1, k - 1) \o SubSeq(before, k + 1, Len(before))

(* C18: the two listings emit the record lines in registry order, buckets by
   increasing index and in a bucket the record registered last first; an
   unregister takes one record out of its chain and leaves the others in the
   order they had. *)
C18_ListingOrder ==
    /\ (last.op \in {"allocations", "leaks"} /\ last.buffer_ok
          /\ last.buffer_size > Len(FullText(last.op, g_memm))) =>
        LET blocks == Live(journal)
        IN  last.buffer =
               header_text(last.op) \o LinesInOrder(last.op, blocks, 0)
               \o (IF blocks = <<>> THEN empty_text(last.op)
                   ELSE total_text(last.op, Len(blocks), BlockBytes(blocks, 1)))
               \o NUL
    /\ (last.op = "unregister" /\ last.found /\ last.ptr # NULL) =>
        /\ Drops(pre.hash_table[memm_hash_ptr(last.ptr)],
                 g_memm.hash_table[memm_hash_ptr(last.ptr)])
        /\ \A i \in Buckets \ {memm_hash_ptr(last.ptr)} :
              g_memm.hash_table[i] = pre.hash_table[i]

(* a listing after the middle one of three records of a chain was removed *)
C18_Witness ==
    /\ last.op = "allocations" /\ last.buffer_ok
    /\ Len(journal) = 4
    /\ \A n \in 1 .. 3 : journal[n].op = "alloc"
    /\ journal[1].ptr % MEMM_HASH_TABLE_SIZE = journal[2].ptr % MEMM_HASH_TABLE_SIZE
    /\ journal[3].ptr % MEMM_HASH_TABLE_SIZE = journal[2].ptr % MEMM_HASH_TABLE_SIZE
    /\ journal[1].ptr # journal[2].ptr /\ journal[3].ptr # journal[2].ptr
    /\ journal[4].op = "free" /\ journal[4].ptr = journal[2].ptr
    /\ TotalRecords(g_memm) = 2
    /\ last.ret = Len(FullText("allocations", g_memm))

-----------------------------------------------------------------------------
(* the number of entries the leak report enumerates when it has room for all *)
LeaksEnumerated(m) ==
    report_buckets("leaks",
                   [mem |-> "", cursor |-> 0, remaining |-> MaxCap, total_written |-> 0,
                    total_count |-> 0, total_bytes |-> 0],
                   m, 0).total_count

(* C19: with the four tracked operations only, the number of live records is
   allocation_count - free_count: the "Potential leaks" figure of the stats
   report is the number of entries the leak report enumerates. *)
C19_LiveRecordsEqualNetCount ==
    /\ g_memm.free_count <= g_memm.allocation_count
    /\ TotalRecords(g_memm) = g_memm.allocation_count - g_memm.free_count
    /\ LeaksEnumerated(g_memm) = TotalRecords(g_memm)
    /\ Contains(memm_get_stats_string(g_memm, TRUE, MaxCap).mem,
                "Potential leaks:      " \o fmt_zu(LeaksEnumerated(g_memm)) \o " objects\n")

(* one record left after a release, next to a block whose registration failed *)
C19_Witness ==
    /\ last.op = "free" /\ last.found
    /\ TotalRecords(g_memm) = 1
    /\ g_memm.allocation_count = 2 /\ g_memm.free_count = 1
    /\ Cardinality(heap) = 2

(* C20: with the four tracked operations only, the sizes of the live records
   add up to total_allocated - total_freed, the current usage. *)
C20_LiveBytesEqualUsage ==
    /\ LiveBytes(g_memm, 0) = g_memm.total_allocated - g_memm.total_freed
    /\ LiveBytes(g_memm, 0) = memm_get_current_usage(g_memm)

(* a release of the second record of a chain whose head has another size *)
C20_Witness ==
    /\ last.op = "free" /\ last.found
    /\ Len(pre.hash_table[memm_hash_ptr(last.ptr)]) = 2
    /\ pre.hash_table[memm_hash_ptr(last.ptr)][2].ptr = last.ptr
    /\ pre.hash_table[memm_hash_ptr(last.ptr)][2].size
          # pre.hash_table[memm_hash_ptr(last.ptr)][1].size
    /\ LiveBytes(g_memm, 0) > 0

====
